---- MODULE Spec2Model ----
(***************************************************************************)
(* Medbook hospital booking service (src/Medbook/table.py): the Flask      *)
(* request handlers over the shared SQL store, modelled as a state machine. *)
(* A request handler that reads the store and later commits is split at    *)
(* the commit, so that handlers of concurrent requests interleave there.   *)
(***************************************************************************)
EXTENDS Integers, Sequences, FiniteSets, TLC

\* ---------------------------------------------------------------- bounds
MaxHandlers == 2     \* requests in flight at the same time
MaxAppts == 2        \* rows the appointments table may hold
MaxDate == 1         \* calendar dates are the day numbers 0..MaxDate
MaxReviews == 2      \* rows the doctor_reviews table may hold
MaxDoctors == 4      \* rows the doctors table may hold
MaxStatReviews == 3  \* ratings on record when the aggregates are read
MaxBlocks == 3       \* availability blocks in one registration

\* ------------------------------------------------------ program constants
SlotMinutes == 30    \* timedelta(minutes=30)

\* Times of day are minutes after midnight.
HM(h, m) == h * 60 + m

Handlers == 1..MaxHandlers
Dates == 0..MaxDate

DAY_ORDER == <<"Mon", "Tue", "Wed", "Thu", "Fri", "Sat", "Sun">>

\* target_date.strftime('%a'); day number 0 is a Monday.
DayAbbrev(d) == DAY_ORDER[(d % 7) + 1]

\* ------------------------------------------------------------ JSON values
\* A value of the request body: t is its JSON/Python kind, v its content.
Absent == [t |-> "absent", v |-> 0]              \* key not in the body
JInt(n) == [t |-> "int", v |-> n]                \* a JSON number
EmptyStr == [t |-> "str_empty", v |-> 0]         \* ""
BlankStr == [t |-> "str_blank", v |-> 0]         \* "   "
BadStr == [t |-> "str_other", v |-> 0]           \* a string in no expected format
Text(n) == [t |-> "str_text", v |-> n]           \* free text number n
DateStr(d) == [t |-> "date_padded", v |-> d]     \* "2025-01-06"
DateStrShort(d) == [t |-> "date_unpadded", v |-> d]   \* "2025-1-6"
TimeStr(m) == [t |-> "time_padded", v |-> m]     \* "09:00"
TimeStrShort(m) == [t |-> "time_unpadded", v |-> m]   \* "9:00"

\* The sentinel reason 'Unstated'.
Unstated == [t |-> "str_unstated", v |-> 0]

\* Python truthiness of data[k]: 0 and "" are falsy.
Truthy(x) == /\ x.t # "absent"
             /\ x.t # "str_empty"
             /\ ~(x.t = "int" /\ x.v = 0)

\* str(val).strip() is non-empty.
StripNonEmpty(x) == x.t \notin {"str_empty", "str_blank"}

default_reasonBlankKept(val) == IF Truthy(val) THEN val ELSE Unstated

default_reason(val) == IF Truthy(val) /\ StripNonEmpty(val) THEN val ELSE Unstated

\* datetime.strptime(x, '%Y-%m-%d').date(): both paddings parse to the same
\* date; another string raises ValueError, a non-string raises TypeError.
ParseDate(x) ==
    IF x.t \in {"date_padded", "date_unpadded"} THEN [r |-> "ok", v |-> x.v]
    ELSE IF x.t = "int" THEN [r |-> "TypeError", v |-> 0]
    ELSE [r |-> "ValueError", v |-> 0]

\* datetime.strptime(x, '%H:%M').time()
ParseTime(x) ==
    IF x.t \in {"time_padded", "time_unpadded"} THEN [r |-> "ok", v |-> x.v]
    ELSE IF x.t = "int" THEN [r |-> "TypeError", v |-> 0]
    ELSE [r |-> "ValueError", v |-> 0]

\* ------------------------------------------------------------------ state
VARIABLES
    backend,              \* engine.url.get_backend_name()
    admin_key_set,        \* the ADMIN_API_KEY environment variable is set
    uq_doctor_slot,       \* the appointments table has the UNIQUE constraint
    today,                \* date.today(), a day number
    users,                \* users table: the set of userid
    hospitals,            \* hospitals table: the names, indexed by hospitalid
    doctors,              \* doctors table: sequence indexed by doctorid
    doctor_availability,  \* doctor_availability table: sequence indexed by dayid
    appointments,         \* appointments table: sequence indexed by appointmentid
    doctor_reviews,       \* doctor_reviews table: sequence indexed by reviewid
    pc,                   \* per handler: "idle" or the request it is serving
    pending,              \* per handler: what the request in flight has read
    resp                  \* the HTTP response the last step sent, if it sent one

vars == <<backend, admin_key_set, uq_doctor_slot, today, users, hospitals, doctors,
          doctor_availability, appointments, doctor_reviews, pc, pending, resp>>

config == <<backend, admin_key_set, uq_doctor_slot>>

\* The created_at columns are left out: no handler reads them.

NoPending == [k |-> "none", userid |-> 0, doctorid |-> 0, date |-> 0, time |-> 0,
              reason |-> Unstated, id |-> 0, existing |-> 0, rating |-> 0,
              comments |-> Absent]

\* A response: the handler and route that sent it, the HTTP status, the message
\* of a {'message': ...} payload, the id it is about, and the payload of a read:
\* the doctor entries of the listing or the detail, the slots of the slot query.
ResponseWith(h, op, status, msg, id, listed, slots) ==
    [h |-> h, op |-> op, status |-> status, msg |-> msg, id |-> id,
     doctors |-> listed, slots |-> slots]

Response(h, op, status, msg, id) == ResponseWith(h, op, status, msg, id, {}, <<>>)

NoResponse == Response(0, "none", 0, "", 0)

\* ensure_schema: the slot constraint is added on PostgreSQL only.
ensure_schema(b) == b = "postgresql"

\* A doctors row as Doctor(...) makes it: approval_status takes 'pending', the
\* other approval columns are NULL.
NewDoctor(hospitalid) ==
    [hospitalid |-> hospitalid, approval_status |-> "pending", approved_at |-> FALSE,
     approved_by |-> 0, rejection_reason |-> Absent]

Window(day, did, start, end) ==
    [dayname |-> day, doctorid |-> did, starttime |-> start, endtime |-> end]

\* seed_data.maybe_seed: one patient, three doctors (approval_status takes the
\* column default) and their weekly windows.
SeedUsers == {1}

SeedHospitals == <<"City Hospital", "Lakeside Clinic">>

SeedDoctors == <<NewDoctor(1), NewDoctor(1), NewDoctor(2)>>

SeedAvailability ==
    << Window("Mon", 1, HM(9, 0), HM(12, 0)),
       Window("Wed", 1, HM(13, 0), HM(17, 0)),
       Window("Tue", 2, HM(10, 0), HM(14, 0)),
       Window("Thu", 3, HM(8, 30), HM(11, 30)),
       Window("Fri", 3, HM(14, 0), HM(18, 0)) >>

NoRequests ==
    /\ pc = [h \in Handlers |-> "idle"]
    /\ pending = [h \in Handlers |-> NoPending]
    /\ resp = NoResponse

\* The service started on a fresh database (db.create_all, ensure_schema) that
\* seed_data.py has filled, with no request in flight.
Init ==
    /\ backend \in {"postgresql", "sqlite"}
    /\ admin_key_set = FALSE
    /\ uq_doctor_slot = ensure_schema(backend)
    /\ today = 0
    /\ users = SeedUsers
    /\ hospitals = SeedHospitals
    /\ doctors = SeedDoctors
    /\ doctor_availability = SeedAvailability
    /\ appointments = <<>>
    /\ doctor_reviews = <<>>
    /\ NoRequests

\* A new request is served by the first handler that is free.
Accepts(h) ==
    /\ pc[h] = "idle"
    /\ \A g \in Handlers : g < h => pc[g] # "idle"

Reply(h, op, status, msg, id) == resp' = Response(h, op, status, msg, id)

\* ------------------------------------------------------------------ admin
\* _require_admin: with no ADMIN_API_KEY configured every request passes.
_require_admin(key_matches) == IF ~admin_key_set THEN TRUE ELSE key_matches

\* POST /admin/doctors/<id>/approve; approver is int(X-Approver-UserId or '0').
approve_doctor(h, doctor_id, key_matches, approver) ==
    /\ Accepts(h)
    /\ UNCHANGED <<config, today, users, hospitals, doctor_availability, appointments,
                   doctor_reviews, pc, pending>>
    /\ IF ~_require_admin(key_matches)
       THEN /\ Reply(h, "approve", 401, "Unauthorized", doctor_id)
            /\ UNCHANGED doctors
       ELSE IF doctor_id \notin DOMAIN doctors
       THEN /\ Reply(h, "approve", 404, "Doctor not found", doctor_id)
            /\ UNCHANGED doctors
       ELSE IF approver # 0 /\ approver \notin users /\ backend = "postgresql"
       THEN \* approved_by REFERENCES users(userid): the commit raises
            /\ Reply(h, "approve", 500, "unhandled IntegrityError", doctor_id)
            /\ UNCHANGED doctors
       ELSE /\ doctors' = [doctors EXCEPT ![doctor_id] =
                   [@ EXCEPT !.approval_status = "approved",
                             !.approved_at = TRUE,
                             !.approved_by = IF approver # 0 THEN approver ELSE @]]
            /\ Reply(h, "approve", 200, "approved", doctor_id)

\* POST /admin/doctors/<id>/reject with body {reason}.
reject_doctor(h, doctor_id, key_matches, reason) ==
    /\ Accepts(h)
    /\ UNCHANGED <<config, today, users, hospitals, doctor_availability, appointments,
                   doctor_reviews, pc, pending>>
    /\ IF ~_require_admin(key_matches)
       THEN /\ Reply(h, "reject", 401, "Unauthorized", doctor_id)
            /\ UNCHANGED doctors
       ELSE IF doctor_id \notin DOMAIN doctors
       THEN /\ Reply(h, "reject", 404, "Doctor not found", doctor_id)
            /\ UNCHANGED doctors
       ELSE /\ doctors' = [doctors EXCEPT ![doctor_id] =
                   [@ EXCEPT !.approval_status = "rejected",
                             !.rejection_reason =
                                 IF Truthy(reason) /\ StripNonEmpty(reason)
                                 THEN reason ELSE Absent]]
            /\ Reply(h, "reject", 200, "rejected", doctor_id)

\* ------------------------------------------------------------------ slots
\* The while loop of get_doctor_availability: cursor, cursor + 30 min, ... while
\* cursor < end_dt.
\* The loop with the test cursor <= end_dt: the end of the window is a slot too.
RECURSIVE SlotLoopInclusive(_, _)
SlotLoopInclusive(cursor, end_dt) ==
    IF cursor <= end_dt
    THEN <<cursor>> \o SlotLoopInclusive(cursor + SlotMinutes, end_dt)
    ELSE <<>>

RECURSIVE SlotLoop(_, _)
SlotLoop(cursor, end_dt) ==
    IF cursor < end_dt
    THEN <<cursor>> \o SlotLoop(cursor + SlotMinutes, end_dt)
    ELSE <<>>

Range(seq) == {seq[i] : i \in DOMAIN seq}

\* The start times the loop yields for any window of the doctor on the weekday
\* of date d.
WindowSlotTimes(doctor_id, d) ==
    UNION {Range(SlotLoop(doctor_availability[i].starttime, doctor_availability[i].endtime)) :
             i \in {j \in DOMAIN doctor_availability :
                      /\ doctor_availability[j].doctorid = doctor_id
                      /\ doctor_availability[j].dayname = DayAbbrev(d)}}

\* ----------------------------------------------------------- registration
\* Hospital.name.ilike(hosp_name): equal up to the case of the letters.
Fold(name) == IF name = "city hospital" THEN "City Hospital" ELSE name

\* Hospital.query.filter(Hospital.name.ilike(hosp_name)).first(): the id of a
\* matching row, 0 when there is none.
HospitalNamed(hosp_name) ==
    IF \E i \in DOMAIN hospitals : Fold(hospitals[i]) = Fold(hosp_name)
    THEN CHOOSE i \in DOMAIN hospitals :
            /\ Fold(hospitals[i]) = Fold(hosp_name)
            /\ \A j \in DOMAIN hospitals : Fold(hospitals[j]) = Fold(hosp_name) => i <= j
    ELSE 0

\* not str(data.get(k, '')).strip(): a number is not missing, str() renders it.
MissingField(x) == x.t \in {"absent", "str_empty", "str_blank"}

\* The availability blocks register_doctor stores: a block with a falsy day,
\* start or end, or with a time that does not parse, is skipped.
RECURSIVE StoredBlocks(_, _)
StoredBlocks(blocks, doctorid) ==
    IF blocks = <<>> THEN <<>>
    ELSE LET b == Head(blocks)
             rest == StoredBlocks(Tail(blocks), doctorid)
         IN IF /\ b.day # ""
               /\ Truthy(b.start)
               /\ Truthy(b.end)
               /\ ParseTime(b.start).r = "ok"
               /\ ParseTime(b.end).r = "ok"
            THEN <<Window(b.day, doctorid, ParseTime(b.start).v, ParseTime(b.end).v)>> \o rest
            ELSE rest

\* POST /doctors/register: one transaction that adds the hospital when no row
\* has the name, the doctor as pending, and the availability blocks.
register_doctor(h, data) ==
    /\ Accepts(h)
    /\ Len(doctors) < MaxDoctors
    /\ UNCHANGED <<config, today, users, appointments, doctor_reviews, pc, pending>>
    /\ IF MissingField(data.name) \/ MissingField(data.hospital)
       THEN /\ Reply(h, "register", 400, "Missing", 0)
            /\ UNCHANGED <<hospitals, doctors, doctor_availability>>
       ELSE IF \/ data.hospital.t = "int"
               \/ data.name.t = "int"
               \/ (Truthy(data.date_of_birth) /\ ParseDate(data.date_of_birth).r # "ok")
       THEN \* .strip() of a number or strptime raises: rollback
            /\ Reply(h, "register", 500, "Registration failed", 0)
            /\ UNCHANGED <<hospitals, doctors, doctor_availability>>
       ELSE LET found == HospitalNamed(data.hospital.v)
                hid == IF found # 0 THEN found ELSE Len(hospitals) + 1
                did == Len(doctors) + 1
            IN /\ hospitals' = IF found # 0 THEN hospitals
                               ELSE Append(hospitals, data.hospital.v)
               /\ doctors' = Append(doctors, NewDoctor(hid))
               /\ doctor_availability' =
                      doctor_availability \o StoredBlocks(data.availability, did)
               /\ Reply(h, "register", 201, "Doctor submitted for approval", did)

\* ------------------------------------------------------- availability summary
\* DAY_ORDER.index(d) if d in DAY_ORDER else 99
DayIndex(d) ==
    IF \E i \in DOMAIN DAY_ORDER : DAY_ORDER[i] = d
    THEN (CHOOSE i \in DOMAIN DAY_ORDER : DAY_ORDER[i] = d) - 1
    ELSE 99

\* r.starttime.strftime('%H:%M')
FormatHM(minutes) == TimeStr(minutes)

\* _availability_blocks: the rows, in the order given, as {day, start, end}; a
\* row with no dayname is left out.
RECURSIVE _availability_blocks(_)
_availability_blocks(rows) ==
    IF rows = <<>> THEN <<>>
    ELSE (IF Head(rows).dayname # ""
          THEN <<[day |-> Head(rows).dayname,
                  start |-> FormatHM(Head(rows).starttime),
                  end |-> FormatHM(Head(rows).endtime)]>>
          ELSE <<>>)
         \o _availability_blocks(Tail(rows))

\* dt.strptime(t, '%H:%M').strftime('%I:%M %p').lstrip('0'): the hour of the
\* 12-hour clock without its leading zero, the minute, AM or PM.
_fmt(t) ==
    LET hour == ParseTime(t).v \div 60 IN
    [hour |-> IF hour % 12 = 0 THEN 12 ELSE hour % 12,
     minute |-> ParseTime(t).v % 60,
     ampm |-> IF hour < 12 THEN "AM" ELSE "PM"]

\* The keys (start, end) of the buckets, in the order they are first met.
RECURSIVE BucketKeys(_)
BucketKeys(blocks) ==
    IF blocks = <<>> THEN <<>>
    ELSE LET front == BucketKeys(SubSeq(blocks, 1, Len(blocks) - 1))
             k == <<blocks[Len(blocks)].start, blocks[Len(blocks)].end>>
         IN IF k \in Range(front) THEN front ELSE Append(front, k)

\* A set of days that are not in DAY_ORDER as a sequence: the order a Python set
\* iterates in.  The inputs hold one such day at most.
RECURSIVE OtherDays(_)
OtherDays(S) ==
    IF S = {} THEN <<>>
    ELSE LET d == CHOOSE x \in S : TRUE IN <<d>> \o OtherDays(S \ {d})

\* sorted(set(days), key=DayIndex)
SortedDays(S) ==
    SelectSeq(DAY_ORDER, LAMBDA d : d \in S) \o OtherDays(S \ Range(DAY_ORDER))

\* The segment of one bucket, with the index of its first day as the sort key.
SegmentOf(blocks, k) ==
    LET days == SortedDays({blocks[i].day :
                    i \in {j \in DOMAIN blocks : <<blocks[j].start, blocks[j].end>> = k}})
    IN [key |-> DayIndex(days[1]), days |-> days, start |-> _fmt(k[1]), end |-> _fmt(k[2])]

\* segments.sort(key=lambda x: x[0]): the sort is stable, so segments with equal
\* keys stay in the order of their buckets.
RECURSIVE SortSegments(_)
SortSegments(segments) ==
    IF segments = <<>> THEN <<>>
    ELSE LET front == SortSegments(SubSeq(segments, 1, Len(segments) - 1))
             x == segments[Len(segments)]
             n == Cardinality({i \in DOMAIN front : front[i].key <= x.key})
         IN SubSeq(front, 1, n) \o <<x>> \o SubSeq(front, n + 1, Len(front))

\* The summary None.
NoSummary == [none |-> TRUE, segments |-> <<>>]

\* The string ' | '.join(...) of segments "d1, d2: start - end", held as the
\* sequence of its segments.
SummaryOf(segments) ==
    [none |-> FALSE,
     segments |-> [i \in DOMAIN segments |->
                     [days |-> segments[i].days, start |-> segments[i].start,
                      end |-> segments[i].end]]]

\* summarize_availability with the days of a bucket in the order of the input,
\* repeated days kept.
summarize_availabilityAsGiven(blocks) ==
    IF blocks = <<>> THEN NoSummary
    ELSE LET keys == BucketKeys(blocks)
             raw(k) == LET idx == SelectSeq([i \in DOMAIN blocks |-> i],
                                     LAMBDA j : <<blocks[j].start, blocks[j].end>> = k)
                       IN [i \in DOMAIN idx |-> blocks[idx[i]].day]
         IN SummaryOf(SortSegments([i \in DOMAIN keys |->
                [key |-> DayIndex(raw(keys[i])[1]), days |-> raw(keys[i]),
                 start |-> _fmt(keys[i][1]), end |-> _fmt(keys[i][2])]]))

\* summarize_availability: one segment per (start, end), its days sorted, the
\* segments sorted by the index of their first day; None for no blocks.
summarize_availability(blocks) ==
    IF blocks = <<>> THEN NoSummary
    ELSE LET keys == BucketKeys(blocks)
         IN SummaryOf(SortSegments([i \in DOMAIN keys |-> SegmentOf(blocks, keys[i])]))

\* get_availability_for_doctors for one doctor: the rows of the doctor as .all()
\* returns them, taken in the order of the table, as blocks and summary.
AvailabilityOf(doctor_id) ==
    LET rows == SelectSeq(doctor_availability, LAMBDA r : r.doctorid = doctor_id)
        blocks == _availability_blocks(rows)
    IN [blocks |-> blocks, summary |-> summarize_availability(blocks)]

\* -------------------------------------------------------------- read path
\* The greatest common divisor, for the mean as an exact fraction.
RECURSIVE GCD(_, _)
GCD(a, b) == IF b = 0 THEN a ELSE GCD(b, a % b)

RECURSIVE SumRatings(_, _)
SumRatings(rows, idx) ==
    IF idx = {} THEN 0
    ELSE LET i == CHOOSE j \in idx : TRUE
         IN rows[i].rating + SumRatings(rows, idx \ {i})

\* func.avg(DoctorReview.rating) over the rows idx, in tenths, as the fraction
\* num/den in lowest terms.
Avg(rows, idx) ==
    LET s == SumRatings(rows, idx)
        n == Cardinality(idx)
        g == GCD(s, n)
    IN [num |-> s \div g, den |-> n \div g]

ReviewsOf(rows, doctorid) == {i \in DOMAIN rows : rows[i].doctorid = doctorid}

\* get_review_aggregates with the filter on the requested ids left out.
get_review_aggregatesAllDoctors(doctor_ids) ==
    IF doctor_ids = {} THEN <<>>
    ELSE [d \in {doctor_reviews[i].doctorid : i \in DOMAIN doctor_reviews} |->
            [review_count |-> Cardinality(ReviewsOf(doctor_reviews, d)),
             avg_rating |-> Avg(doctor_reviews, ReviewsOf(doctor_reviews, d))]]

\* get_review_aggregates: doctorid -> {review_count, avg_rating} for the
\* requested doctors that have a row in doctor_reviews; {} for no ids.
get_review_aggregates(doctor_ids) ==
    IF doctor_ids = {} THEN <<>>
    ELSE [d \in {doctor_reviews[i].doctorid :
                   i \in {j \in DOMAIN doctor_reviews :
                            doctor_reviews[j].doctorid \in doctor_ids}} |->
            [review_count |-> Cardinality(ReviewsOf(doctor_reviews, d)),
             avg_rating |-> Avg(doctor_reviews, ReviewsOf(doctor_reviews, d))]]

\* avg_rating None: no fraction.
NoAverage == [num |-> 0, den |-> 0]

\* One entry of the listing or the detail: the review_map.get(...) defaults are
\* review_count 0 and avg_rating None.
DoctorJson(d, review_map) ==
    [doctorid |-> d,
     availability_summary |-> AvailabilityOf(d).summary,
     availability_blocks |-> AvailabilityOf(d).blocks,
     review_count |-> IF d \in DOMAIN review_map THEN review_map[d].review_count ELSE 0,
     avg_rating |-> IF d \in DOMAIN review_map THEN review_map[d].avg_rating
                    ELSE NoAverage]

\* The doctors the query of get_doctors selects, every row listed: no filter.
ListedDoctorsUnfiltered ==
    {d \in DOMAIN doctors : doctors[d].hospitalid \in DOMAIN hospitals}

\* Doctor JOIN Hospital ... filter(Doctor.approval_status == 'approved')
ListedDoctors ==
    {d \in DOMAIN doctors :
        /\ doctors[d].hospitalid \in DOMAIN hospitals
        /\ doctors[d].approval_status = "approved"}

\* GET /doctors: the approved doctors with their aggregates.  The rows come in
\* no specified order, so the payload is held as a set.
get_doctors(h) ==
    /\ Accepts(h)
    /\ UNCHANGED <<config, today, users, hospitals, doctors, doctor_availability,
                   appointments, doctor_reviews, pc, pending>>
    /\ LET ids == ListedDoctors
           review_map == get_review_aggregates(ids)
       IN resp' = ResponseWith(h, "list", 200, "", 0,
                               {DoctorJson(d, review_map) : d \in ids}, <<>>)

\* GET /doctors/<id>: both definitions of get_doctor_detail select the doctor
\* by id and approval_status == 'approved'.
get_doctor_detail(h, doctor_id) ==
    /\ Accepts(h)
    /\ UNCHANGED <<config, today, users, hospitals, doctors, doctor_availability,
                   appointments, doctor_reviews, pc, pending>>
    /\ IF doctor_id \notin ListedDoctors
       THEN Reply(h, "detail", 404, "Doctor not found", doctor_id)
       ELSE resp' = ResponseWith(h, "detail", 200, "", doctor_id,
                        {DoctorJson(doctor_id, get_review_aggregates({doctor_id}))}, <<>>)

\* The rows DoctorAvailability.query.filter_by(doctorid, dayname) matches.
WindowsOn(doctor_id, day_abbrev) ==
    {i \in DOMAIN doctor_availability :
        /\ doctor_availability[i].doctorid = doctor_id
        /\ doctor_availability[i].dayname = day_abbrev}

\* cursor.strftime('%H:%M') of each start the loop yields.
RECURSIVE FormatSlots(_)
FormatSlots(times) ==
    IF times = <<>> THEN <<>> ELSE <<TimeStr(Head(times))>> \o FormatSlots(Tail(times))

\* get_doctor_availability that computes the slots of any doctor, approved or
\* not.
get_doctor_availabilityUngated(h, doctor_id, date_str, w) ==
    /\ Accepts(h)
    /\ UNCHANGED <<config, today, users, hospitals, doctors, doctor_availability,
                   appointments, doctor_reviews, pc, pending>>
    /\ IF ~Truthy(date_str)
       THEN /\ w = 0
            /\ Reply(h, "slots", 400, "date query param required (YYYY-MM-DD)", doctor_id)
       ELSE IF ParseDate(date_str).r # "ok"
       THEN /\ w = 0
            /\ Reply(h, "slots", 400, "Invalid date format, expected YYYY-MM-DD", doctor_id)
       ELSE LET avail == WindowsOn(doctor_id, DayAbbrev(ParseDate(date_str).v)) IN
            IF avail = {}
            THEN /\ w = 0
                 /\ resp' = ResponseWith(h, "slots", 200, "", doctor_id, {}, <<>>)
            ELSE /\ w \in avail
                 /\ resp' = ResponseWith(h, "slots", 200, "", doctor_id, {},
                        FormatSlots(SlotLoop(doctor_availability[w].starttime,
                                             doctor_availability[w].endtime)))

\* get_doctor_availability that leaves out the starts a scheduled appointment
\* of the doctor holds on the date.
get_doctor_availabilityFree(h, doctor_id, date_str, w) ==
    /\ Accepts(h)
    /\ UNCHANGED <<config, today, users, hospitals, doctors, doctor_availability,
                   appointments, doctor_reviews, pc, pending>>
    /\ IF ~Truthy(date_str)
       THEN /\ w = 0
            /\ Reply(h, "slots", 400, "date query param required (YYYY-MM-DD)", doctor_id)
       ELSE IF ParseDate(date_str).r # "ok"
       THEN /\ w = 0
            /\ Reply(h, "slots", 400, "Invalid date format, expected YYYY-MM-DD", doctor_id)
       ELSE IF ~(doctor_id \in DOMAIN doctors /\ doctors[doctor_id].approval_status = "approved")
       THEN /\ w = 0
            /\ resp' = ResponseWith(h, "slots", 200, "", doctor_id, {}, <<>>)
       ELSE LET avail == WindowsOn(doctor_id, DayAbbrev(ParseDate(date_str).v))
                free(t) == \A i \in DOMAIN appointments :
                              ~(/\ appointments[i].status
                                /\ appointments[i].doctorid = doctor_id
                                /\ appointments[i].appointment_date = ParseDate(date_str).v
                                /\ appointments[i].appointment_time = t)
            IN
            IF avail = {}
            THEN /\ w = 0
                 /\ resp' = ResponseWith(h, "slots", 200, "", doctor_id, {}, <<>>)
            ELSE /\ w \in avail
                 /\ resp' = ResponseWith(h, "slots", 200, "", doctor_id, {},
                        FormatSlots(SelectSeq(SlotLoop(doctor_availability[w].starttime,
                                                       doctor_availability[w].endtime),
                                              free)))

\* GET /doctors/<id>/availability?date=: w is the row .first() returns of the
\* windows of the doctor on the weekday, in no specified order; 0 when the
\* query is not reached or matches no row.
get_doctor_availability(h, doctor_id, date_str, w) ==
    /\ Accepts(h)
    /\ UNCHANGED <<config, today, users, hospitals, doctors, doctor_availability,
                   appointments, doctor_reviews, pc, pending>>
    /\ IF ~Truthy(date_str)
       THEN /\ w = 0
            /\ Reply(h, "slots", 400, "date query param required (YYYY-MM-DD)", doctor_id)
       ELSE IF ParseDate(date_str).r # "ok"
       THEN /\ w = 0
            /\ Reply(h, "slots", 400, "Invalid date format, expected YYYY-MM-DD", doctor_id)
       ELSE IF ~(doctor_id \in DOMAIN doctors /\ doctors[doctor_id].approval_status = "approved")
       THEN /\ w = 0
            /\ resp' = ResponseWith(h, "slots", 200, "", doctor_id, {}, <<>>)
       ELSE LET avail == WindowsOn(doctor_id, DayAbbrev(ParseDate(date_str).v)) IN
            IF avail = {}
            THEN /\ w = 0
                 /\ resp' = ResponseWith(h, "slots", 200, "", doctor_id, {}, <<>>)
            ELSE /\ w \in avail
                 /\ resp' = ResponseWith(h, "slots", 200, "", doctor_id, {},
                        FormatSlots(SlotLoop(doctor_availability[w].starttime,
                                             doctor_availability[w].endtime)))


\* ---------------------------------------------------------------- booking
\* any(k not in data or not data[k] for k in required)
RequiredMissing(data) ==
    \E k \in {"userid", "doctorid", "date", "time"} : ~Truthy(data[k])

\* A row with the same (doctorid, appointment_date, appointment_time), whatever
\* its status: what uq_doctor_slot forbids a second one of.
SlotRowExists(appts, doctorid, d, t) ==
    \E i \in DOMAIN appts :
        /\ appts[i].doctorid = doctorid
        /\ appts[i].appointment_date = d
        /\ appts[i].appointment_time = t

\* The outcome of the checks of create_appointment before the insert.
BookCheck(data) ==
    IF RequiredMissing(data) THEN "required"
    ELSE IF data.userid.v \notin users \/ data.doctorid.v \notin DOMAIN doctors
    THEN "no_user_or_doctor"
    ELSE IF ParseDate(data.date).r = "ValueError" THEN "format"
    ELSE IF ParseDate(data.date).r = "TypeError" THEN "TypeError"
    ELSE IF ParseTime(data.time).r = "ValueError" THEN "format"
    ELSE IF ParseTime(data.time).r = "TypeError" THEN "TypeError"
    ELSE "ok"

\* create_appointment up to the construction of the Appointment object: the
\* checks of the body and the reads of the user and the doctor.
create_appointment_validate(h, data) ==
    /\ Accepts(h)
    /\ Len(appointments) < MaxAppts
    /\ UNCHANGED <<config, today, users, hospitals, doctors, doctor_availability, appointments,
                   doctor_reviews>>
    /\ LET c == BookCheck(data) IN
       IF c = "required"
       THEN /\ Reply(h, "book", 400, "userid, doctorid, date, time are required", 0)
            /\ UNCHANGED <<pc, pending>>
       ELSE IF c = "no_user_or_doctor"
       THEN /\ Reply(h, "book", 400, "Invalid user or doctor", 0)
            /\ UNCHANGED <<pc, pending>>
       ELSE IF c = "format"
       THEN /\ Reply(h, "book", 400, "Invalid date or time format", 0)
            /\ UNCHANGED <<pc, pending>>
       ELSE IF c = "TypeError"
       THEN \* except ValueError does not catch it: Flask answers 500
            /\ Reply(h, "book", 500, "unhandled TypeError", 0)
            /\ UNCHANGED <<pc, pending>>
       ELSE /\ pc' = [pc EXCEPT ![h] = "book"]
            /\ pending' = [pending EXCEPT ![h] =
                   [NoPending EXCEPT !.k = "book",
                                     !.userid = data.userid.v,
                                     !.doctorid = data.doctorid.v,
                                     !.date = ParseDate(data.date).v,
                                     !.time = ParseTime(data.time).v,
                                     !.reason = default_reason(data.reason)]]
            /\ resp' = NoResponse

NewAppointment(p) ==
    [userid |-> p.userid, doctorid |-> p.doctorid, status |-> TRUE,
     appointment_date |-> p.date, appointment_time |-> p.time, reason |-> p.reason]

\* db.session.add(appt); db.session.commit(): the insert, which the store
\* refuses when uq_doctor_slot exists and a row holds the slot.
create_appointment_commit(h) ==
    /\ pc[h] = "book"
    /\ pc' = [pc EXCEPT ![h] = "idle"]
    /\ pending' = [pending EXCEPT ![h] = NoPending]
    /\ UNCHANGED <<config, today, users, hospitals, doctors, doctor_availability, doctor_reviews>>
    /\ LET p == pending[h] IN
       IF uq_doctor_slot /\ SlotRowExists(appointments, p.doctorid, p.date, p.time)
       THEN /\ Reply(h, "book", 500, "Database error creating appointment", 0)
            /\ UNCHANGED appointments
       ELSE /\ Len(appointments) < MaxAppts
            /\ appointments' = Append(appointments, NewAppointment(p))
            /\ Reply(h, "book", 201, "Appointment created", Len(appointments) + 1)

\* ----------------------------------------------------------- cancellation
\* cancel_appointment without the check of the status: a repeated cancel
\* goes on to the commit.
cancel_appointment_readUnchecked(h, appointment_id) ==
    /\ Accepts(h)
    /\ UNCHANGED <<config, today, users, hospitals, doctors, doctor_availability, appointments,
                   doctor_reviews>>
    /\ IF appointment_id \notin DOMAIN appointments
       THEN /\ Reply(h, "cancel", 404, "Appointment not found", appointment_id)
            /\ UNCHANGED <<pc, pending>>
       ELSE /\ pc' = [pc EXCEPT ![h] = "cancel"]
            /\ pending' = [pending EXCEPT ![h] =
                   [NoPending EXCEPT !.k = "cancel", !.id = appointment_id]]
            /\ resp' = NoResponse

\* cancel_appointment up to the assignment: the read of the row and its checks.
cancel_appointment_read(h, appointment_id) ==
    /\ Accepts(h)
    /\ UNCHANGED <<config, today, users, hospitals, doctors, doctor_availability, appointments,
                   doctor_reviews>>
    /\ IF appointment_id \notin DOMAIN appointments
       THEN /\ Reply(h, "cancel", 404, "Appointment not found", appointment_id)
            /\ UNCHANGED <<pc, pending>>
       ELSE IF ~appointments[appointment_id].status
       THEN /\ Reply(h, "cancel", 400, "Already cancelled", appointment_id)
            /\ UNCHANGED <<pc, pending>>
       ELSE /\ pc' = [pc EXCEPT ![h] = "cancel"]
            /\ pending' = [pending EXCEPT ![h] =
                   [NoPending EXCEPT !.k = "cancel", !.id = appointment_id]]
            /\ resp' = NoResponse

\* The commit of a cancel that flips the status instead of clearing it.
cancel_appointment_commitToggle(h) ==
    /\ pc[h] = "cancel"
    /\ pc' = [pc EXCEPT ![h] = "idle"]
    /\ pending' = [pending EXCEPT ![h] = NoPending]
    /\ appointments' = [appointments EXCEPT ![pending[h].id].status = ~@]
    /\ Reply(h, "cancel", 200, "Appointment cancelled", pending[h].id)
    /\ UNCHANGED <<config, today, users, hospitals, doctors, doctor_availability, doctor_reviews>>

\* The commit of a cancel that also clears the time of the appointment.
cancel_appointment_commitRelease(h) ==
    /\ pc[h] = "cancel"
    /\ pc' = [pc EXCEPT ![h] = "idle"]
    /\ pending' = [pending EXCEPT ![h] = NoPending]
    /\ appointments' = [appointments EXCEPT ![pending[h].id].status = FALSE,
                                            ![pending[h].id].appointment_time = 0]
    /\ Reply(h, "cancel", 200, "Appointment cancelled", pending[h].id)
    /\ UNCHANGED <<config, today, users, hospitals, doctors, doctor_availability, doctor_reviews>>

\* The commit of a cancel that also deletes the reviews of the appointment.
cancel_appointment_commitDropReviews(h) ==
    /\ pc[h] = "cancel"
    /\ pc' = [pc EXCEPT ![h] = "idle"]
    /\ pending' = [pending EXCEPT ![h] = NoPending]
    /\ appointments' = [appointments EXCEPT ![pending[h].id].status = FALSE]
    /\ doctor_reviews' = SelectSeq(doctor_reviews,
                                   LAMBDA r : r.appointmentid # pending[h].id)
    /\ Reply(h, "cancel", 200, "Appointment cancelled", pending[h].id)
    /\ UNCHANGED <<config, today, users, hospitals, doctors, doctor_availability>>

\* appt.status = False; db.session.commit()
cancel_appointment_commit(h) ==
    /\ pc[h] = "cancel"
    /\ pc' = [pc EXCEPT ![h] = "idle"]
    /\ pending' = [pending EXCEPT ![h] = NoPending]
    /\ appointments' = [appointments EXCEPT ![pending[h].id].status = FALSE]
    /\ Reply(h, "cancel", 200, "Appointment cancelled", pending[h].id)
    /\ UNCHANGED <<config, today, users, hospitals, doctors, doctor_availability, doctor_reviews>>

\* ----------------------------------------------------------------- rating
\* A JSON number with one decimal, held in tenths: JNum(43) is 4.3.
JNum(tenths) == [t |-> "num", v |-> tenths]

JNull == [t |-> "null", v |-> 0]

\* JSON true / false.
JBool(b) == [t |-> "bool", v |-> IF b THEN 1 ELSE 0]

\* A string that holds a number with one decimal: "3.5" is NumStr(35).
NumStr(tenths) == [t |-> "str_num", v |-> tenths]

\* NaN, which json.loads accepts as a number (as the string "nan" float() does).
JNaN == [t |-> "nan", v |-> 0]

\* float(data['rating']), in tenths: a number, a bool (float(True) is 1.0) and
\* a numeric string convert; None raises TypeError, another string ValueError.
ParseFloat(x) ==
    IF x.t \in {"num", "str_num"} THEN [r |-> "ok", v |-> x.v]
    ELSE IF x.t \in {"int", "bool"} THEN [r |-> "ok", v |-> 10 * x.v]
    ELSE IF x.t = "nan" THEN [r |-> "nan", v |-> 0]
    ELSE IF x.t = "null" THEN [r |-> "TypeError", v |-> 0]
    ELSE [r |-> "ValueError", v |-> 0]

\* Python round(): to the nearest integer, a tie to the even one. n is in tenths.
RoundHalfEven(n) ==
    LET q == n \div 10
        r == n % 10
    IN IF r > 5 THEN q + 1
       ELSE IF r < 5 THEN q
       ELSE IF q % 2 = 0 THEN q ELSE q + 1

\* round(rating_val * 2) / 2.0, in tenths
HalfStar(tenths) == 5 * RoundHalfEven(2 * tenths)

\* (data.get('comment') or data.get('comments') or '').strip() or None
CommentOf(data) ==
    LET c == IF Truthy(data.comment) THEN data.comment
             ELSE IF Truthy(data.comments) THEN data.comments
             ELSE EmptyStr
    IN IF c.t \in {"int", "num"} THEN [r |-> "AttributeError", v |-> Absent]
       ELSE IF StripNonEmpty(c) THEN [r |-> "ok", v |-> c]
       ELSE [r |-> "ok", v |-> Absent]

\* DoctorReview.query.filter_by(appointmentid=appointment_id).first(): the
\* reviewid of a row of the appointment, 0 when there is none.
ExistingReviews(appointment_id) ==
    IF \E i \in DOMAIN doctor_reviews : doctor_reviews[i].appointmentid = appointment_id
    THEN {i \in DOMAIN doctor_reviews : doctor_reviews[i].appointmentid = appointment_id}
    ELSE {0}

\* rate_appointment up to the commit: the checks and the read of the existing
\* review.
rate_appointment_read(h, appointment_id, data, existing) ==
    /\ Accepts(h)
    /\ existing \in ExistingReviews(appointment_id)
    /\ UNCHANGED <<config, today, users, hospitals, doctors, doctor_availability, appointments,
                   doctor_reviews>>
    /\ IF appointment_id \notin DOMAIN appointments
       THEN /\ Reply(h, "rate", 404, "Appointment not found", appointment_id)
            /\ UNCHANGED <<pc, pending>>
       ELSE IF ~appointments[appointment_id].status
       THEN /\ Reply(h, "rate", 400, "Cannot rate a cancelled appointment", appointment_id)
            /\ UNCHANGED <<pc, pending>>
       ELSE IF appointments[appointment_id].appointment_date >= today
       THEN /\ Reply(h, "rate", 400, "Can only rate a completed (past) appointment", appointment_id)
            /\ UNCHANGED <<pc, pending>>
       ELSE IF data.rating.t = "absent"
       THEN /\ Reply(h, "rate", 400, "rating required", appointment_id)
            /\ UNCHANGED <<pc, pending>>
       ELSE IF ParseFloat(data.rating).r \in {"TypeError", "ValueError"}
       THEN /\ Reply(h, "rate", 400, "rating must be a number", appointment_id)
            /\ UNCHANGED <<pc, pending>>
       ELSE IF /\ ParseFloat(data.rating).r = "ok"
               /\ (ParseFloat(data.rating).v < 10 \/ ParseFloat(data.rating).v > 50)
       THEN /\ Reply(h, "rate", 400, "rating must be between 1 and 5", appointment_id)
            /\ UNCHANGED <<pc, pending>>
       ELSE IF ParseFloat(data.rating).r = "nan"
       THEN \* nan < 1 and nan > 5 are both False; round(nan) raises ValueError
            /\ Reply(h, "rate", 500, "unhandled ValueError", appointment_id)
            /\ UNCHANGED <<pc, pending>>
       ELSE IF CommentOf(data).r # "ok"
       THEN /\ Reply(h, "rate", 500, "unhandled AttributeError", appointment_id)
            /\ UNCHANGED <<pc, pending>>
       ELSE /\ pc' = [pc EXCEPT ![h] = "rate"]
            /\ pending' = [pending EXCEPT ![h] =
                   [NoPending EXCEPT !.k = "rate",
                                     !.id = appointment_id,
                                     !.userid = appointments[appointment_id].userid,
                                     !.doctorid = appointments[appointment_id].doctorid,
                                     !.existing = existing,
                                     !.rating = HalfStar(ParseFloat(data.rating).v),
                                     !.comments = CommentOf(data).v]]
            /\ resp' = NoResponse

\* rate_appointment that adds a row whether the appointment has a review or not.
rate_appointment_commitInsert(h) ==
    /\ pc[h] = "rate"
    /\ pc' = [pc EXCEPT ![h] = "idle"]
    /\ pending' = [pending EXCEPT ![h] = NoPending]
    /\ UNCHANGED <<config, today, users, hospitals, doctors, doctor_availability, appointments>>
    /\ LET p == pending[h] IN
       /\ Len(doctor_reviews) < MaxReviews
       /\ doctor_reviews' = Append(doctor_reviews,
                [doctorid |-> p.doctorid, userid |-> p.userid,
                 appointmentid |-> p.id, rating |-> p.rating, comments |-> p.comments])
       /\ Reply(h, "rate", 200, "rating created", p.id)

\* The update of the existing review or the insert of a new one, and the commit.
rate_appointment_commit(h) ==
    /\ pc[h] = "rate"
    /\ pc' = [pc EXCEPT ![h] = "idle"]
    /\ pending' = [pending EXCEPT ![h] = NoPending]
    /\ UNCHANGED <<config, today, users, hospitals, doctors, doctor_availability, appointments>>
    /\ LET p == pending[h] IN
       /\ p.existing # 0 \/ Len(doctor_reviews) < MaxReviews
       /\ IF p.existing # 0
          THEN doctor_reviews' = [doctor_reviews EXCEPT ![p.existing] =
                   [@ EXCEPT !.rating = p.rating, !.comments = p.comments]]
          ELSE doctor_reviews' = Append(doctor_reviews,
                   [doctorid |-> p.doctorid, userid |-> p.userid,
                    appointmentid |-> p.id, rating |-> p.rating, comments |-> p.comments])
       /\ Reply(h, "rate", 200, IF p.existing # 0 THEN "rating updated" ELSE "rating created", p.id)

\* date.today() moves on.
NextDay ==
    /\ today <= MaxDate
    /\ today' = today + 1
    /\ UNCHANGED <<config, users, hospitals, doctors, doctor_availability, appointments,
                   doctor_reviews, pc, pending>>
    /\ resp' = NoResponse

\* ------------------------------------------------------------ specification
\* The bodies POST /appointments is tried with: the well-formed ones for four
\* slots, and the first of them with one field missing, empty, malformed or of
\* the wrong JSON type.
BaseBody == [userid |-> JInt(1), doctorid |-> JInt(1), date |-> DateStr(0),
             time |-> TimeStr(HM(9, 0)), reason |-> Text(1)]

WellFormedBodies ==
    {[BaseBody EXCEPT !.reason = x] : x \in {Absent, EmptyStr, BlankStr, Text(1)}}
      \cup {[BaseBody EXCEPT !.doctorid = JInt(2)]}
      \cup {[BaseBody EXCEPT !.date = x] : x \in {DateStrShort(0)} \cup {DateStr(d) : d \in Dates}}
      \cup {[BaseBody EXCEPT !.time = x] : x \in {TimeStrShort(HM(9, 0)), TimeStr(HM(9, 15))}}

FaultyBodies ==
    {[BaseBody EXCEPT !.userid = x] : x \in {Absent, JInt(0), JInt(2)}}
      \cup {[BaseBody EXCEPT !.doctorid = x] : x \in {Absent, JInt(4)}}
      \cup {[BaseBody EXCEPT !.date = x] : x \in {Absent, EmptyStr, BadStr, JInt(20250106)}}
      \cup {[BaseBody EXCEPT !.time = x] : x \in {Absent, BadStr, JInt(900)}}
      \cup {[BaseBody EXCEPT !.date = BadStr, !.time = JInt(900)],
            [BaseBody EXCEPT !.date = JInt(20250106), !.time = BadStr]}

BookBodies == WellFormedBodies \cup FaultyBodies

AppointmentIds == 1..(MaxAppts + 1)

RateBodies == {[rating |-> JNum(43), comment |-> Absent, comments |-> Absent]}

Next ==
    \/ \E h \in Handlers : approve_doctor(h, 1, TRUE, 0)
    \/ \E h \in Handlers : reject_doctor(h, 1, TRUE, Absent)
    \/ \E h \in Handlers, data \in BookBodies : create_appointment_validate(h, data)
    \/ \E h \in Handlers : create_appointment_commit(h)
    \/ \E h \in Handlers, id \in AppointmentIds : cancel_appointment_read(h, id)
    \/ \E h \in Handlers : cancel_appointment_commit(h)

\* Booking and cancellation, with the approval of doctor 1 changing meanwhile.
Spec == Init /\ [][Next]_vars

\* The whole life of an appointment: booked, cancelled, rated as the days pass,
\* for two bodies that differ in the date.
LifeBodies == {BaseBody, [BaseBody EXCEPT !.date = DateStr(MaxDate), !.reason = Absent]}

NextLife ==
    \/ \E h \in Handlers : approve_doctor(h, 1, TRUE, 0)
    \/ \E h \in Handlers : reject_doctor(h, 1, TRUE, Absent)
    \/ \E h \in Handlers, data \in LifeBodies : create_appointment_validate(h, data)
    \/ \E h \in Handlers : create_appointment_commit(h)
    \/ \E h \in Handlers, id \in AppointmentIds : cancel_appointment_read(h, id)
    \/ \E h \in Handlers : cancel_appointment_commit(h)
    \/ \E h \in Handlers, id \in AppointmentIds, data \in RateBodies,
          e \in 0..MaxReviews : rate_appointment_read(h, id, data, e)
    \/ \E h \in Handlers : rate_appointment_commit(h)
    \/ NextDay

SpecLife == Init /\ [][NextLife]_vars

\* The approval workflow and the public read path: doctors register, the admin
\* routes are called with and without the key, in a service with and without
\* ADMIN_API_KEY, and the listing, the detail and the slots are read.
InitAdmin ==
    /\ backend \in {"postgresql", "sqlite"}
    /\ admin_key_set \in BOOLEAN
    /\ uq_doctor_slot = ensure_schema(backend)
    /\ today = 0
    /\ users = SeedUsers
    /\ hospitals = SeedHospitals
    /\ doctors = SeedDoctors
    /\ doctor_availability = SeedAvailability
    /\ appointments = <<>>
    /\ doctor_reviews = <<>>
    /\ NoRequests

HospitalStr(name) == [t |-> "str_text", v |-> name]

Block(day, start, end) == [day |-> day, start |-> start, end |-> end]

BaseRegistration ==
    [name |-> Text(1), hospital |-> HospitalStr("city hospital"),
     date_of_birth |-> Absent, availability |-> <<>>]

RegisterBodies ==
    {BaseRegistration,
     [BaseRegistration EXCEPT !.hospital = HospitalStr("General"),
          !.availability = <<Block("Mon", TimeStr(HM(9, 0)), TimeStr(HM(10, 0))),
                             Block("Tue", TimeStr(HM(14, 0)), TimeStr(HM(15, 0)))>>],
     [BaseRegistration EXCEPT
          !.availability = <<Block("Mon", BadStr, TimeStr(HM(10, 0))),
                             Block("Tue", TimeStrShort(HM(9, 0)), TimeStr(HM(9, 30)))>>],
     [BaseRegistration EXCEPT !.name = Absent],
     [BaseRegistration EXCEPT !.name = JInt(7)],
     [BaseRegistration EXCEPT !.date_of_birth = BadStr]}

\* The doctors the admin and slot requests name: a seeded one, the one that
\* registers, and an id with no row.
AdminDoctorIds == {1, Len(SeedDoctors) + 1, MaxDoctors + 1}

Approvers == {0, 1, 2}

RejectReasons == {Absent, BlankStr, Text(1)}

SlotDates == {Absent, BadStr, DateStr(0), DateStrShort(1)}

NextAdmin ==
    \/ \E h \in Handlers, data \in RegisterBodies : register_doctor(h, data)
    \/ \E h \in Handlers, id \in AdminDoctorIds, key \in BOOLEAN, a \in Approvers :
          approve_doctor(h, id, key, a)
    \/ \E h \in Handlers, id \in AdminDoctorIds, key \in BOOLEAN, r \in RejectReasons :
          reject_doctor(h, id, key, r)
    \/ \E h \in Handlers : get_doctors(h)
    \/ \E h \in Handlers, id \in 1..(MaxDoctors + 1) : get_doctor_detail(h, id)
    \/ \E h \in Handlers, id \in AdminDoctorIds, d \in SlotDates,
          w \in 0..(Len(SeedAvailability) + 2) : get_doctor_availability(h, id, d, w)

SpecAdmin == InitAdmin /\ [][NextAdmin]_vars

\* Rating: one appointment slot is booked and rated as the days pass, with scores
\* inside and outside the range, of every JSON kind, and with comments under
\* either key.
BaseRating == [rating |-> JNum(43), comment |-> Absent, comments |-> Absent]

ScoreBodies ==
    {[BaseRating EXCEPT !.rating = x] :
        x \in {JNum(43), JNum(2), JNum(55), JInt(0), JBool(TRUE), JBool(FALSE),
               NumStr(44), JNaN, BadStr, JNull, Absent}}

CommentBodies ==
    {[BaseRating EXCEPT !.rating = JInt(5), !.comment = Text(1)],
     [BaseRating EXCEPT !.comment = BlankStr, !.comments = Text(2)],
     [BaseRating EXCEPT !.comment = JInt(3)]}

AllRateBodies == ScoreBodies \cup CommentBodies

NextRate ==
    \/ \E h \in Handlers : create_appointment_validate(h, BaseBody)
    \/ \E h \in Handlers : create_appointment_commit(h)
    \/ \E h \in Handlers, id \in AppointmentIds, data \in AllRateBodies,
          e \in 0..MaxReviews : rate_appointment_read(h, id, data, e)
    \/ \E h \in Handlers : rate_appointment_commit(h)
    \/ NextDay

SpecRate == Init /\ [][NextRate]_vars

\* The aggregates: the service on a later day, with up to MaxStatReviews past
\* appointments of doctors 1 and 2 on record, each rated once with 3, 4 or 5
\* stars; doctors are approved and the listing and the detail are read.
RatedAppointment(i, doctorid) ==
    [userid |-> 1, doctorid |-> doctorid, status |-> TRUE, appointment_date |-> 0,
     appointment_time |-> HM(9, 0) + SlotMinutes * (i - 1), reason |-> Unstated]

StatRatings == {30, 40, 50}

InitStats ==
    /\ backend \in {"postgresql", "sqlite"}
    /\ admin_key_set = FALSE
    /\ uq_doctor_slot = ensure_schema(backend)
    /\ today = 1
    /\ users = SeedUsers
    /\ hospitals = SeedHospitals
    /\ doctors = SeedDoctors
    /\ doctor_availability = SeedAvailability
    /\ \E n \in 0..MaxStatReviews :
         \E who \in [1..n -> {1, 2}], score \in [1..n -> StatRatings] :
            /\ appointments = [i \in 1..n |-> RatedAppointment(i, who[i])]
            /\ doctor_reviews = [i \in 1..n |->
                   [doctorid |-> who[i], userid |-> 1, appointmentid |-> i,
                    rating |-> score[i], comments |-> Absent]]
    /\ NoRequests

NextStats ==
    \/ \E h \in Handlers, id \in DOMAIN SeedDoctors : approve_doctor(h, id, TRUE, 0)
    \/ \E h \in Handlers : get_doctors(h)
    \/ \E h \in Handlers, id \in 1..MaxDoctors : get_doctor_detail(h, id)

SpecStats == InitStats /\ [][NextStats]_vars

\* The slots: a doctor registers with one window, or two windows on the same
\* weekday, of assorted starts and ends, is approved, and its slots are asked
\* for while an appointment with it is booked and cancelled.
SlotStarts == {HM(9, 0), HM(9, 15), HM(10, 0)}

SlotEnds == {HM(9, 0), HM(9, 30), HM(10, 0), HM(10, 20)}

MonBlock(start, end) == Block("Mon", TimeStr(start), TimeStr(end))

SlotRegisterBodies ==
    {[BaseRegistration EXCEPT !.availability = <<MonBlock(s, e)>>] :
        s \in SlotStarts, e \in SlotEnds}
      \cup {[BaseRegistration EXCEPT !.availability = pair] :
              pair \in {<<MonBlock(HM(9, 0), HM(10, 0)), MonBlock(HM(10, 0), HM(10, 20))>>,
                        <<MonBlock(HM(9, 0), HM(9, 30)), MonBlock(HM(9, 0), HM(10, 0))>>,
                        <<MonBlock(HM(9, 15), HM(10, 0)), MonBlock(HM(9, 0), HM(9, 30))>>,
                        <<MonBlock(HM(10, 0), HM(10, 20)), MonBlock(HM(9, 0), HM(9, 30))>>}}

\* The doctor that registers.
NewDoctorId == Len(SeedDoctors) + 1

SlotBody == [BaseBody EXCEPT !.doctorid = JInt(NewDoctorId)]

SlotQueryDates == {DateStr(0), DateStrShort(1)}

NextSlots ==
    \/ \E h \in Handlers, data \in SlotRegisterBodies : register_doctor(h, data)
    \/ \E h \in Handlers : approve_doctor(h, NewDoctorId, TRUE, 0)
    \/ \E h \in Handlers, d \in SlotQueryDates, w \in 0..(Len(SeedAvailability) + 2) :
          get_doctor_availability(h, NewDoctorId, d, w)
    \/ \E h \in Handlers : create_appointment_validate(h, SlotBody)
    \/ \E h \in Handlers : create_appointment_commit(h)
    \/ \E h \in Handlers, id \in AppointmentIds : cancel_appointment_read(h, id)
    \/ \E h \in Handlers : cancel_appointment_commit(h)

SpecSlots == Init /\ [][NextSlots]_vars

\* The summary: a doctor registers with up to MaxBlocks blocks, in any order and
\* with repetitions, over two time ranges and three days, one of them no
\* weekday name; it is approved and the listing and the detail are read.
SummaryBlocks ==
    {Block(day, TimeStr(range[1]), TimeStr(range[2])) :
        day \in {"Mon", "Wed", "Hol"},
        range \in {<<HM(9, 0), HM(12, 0)>>, <<HM(13, 0), HM(17, 0)>>}}

SummaryRegisterBodies ==
    {[BaseRegistration EXCEPT !.availability = blocks] :
        blocks \in UNION {[1..n -> SummaryBlocks] : n \in 0..MaxBlocks}}

NextSummary ==
    \/ \E h \in Handlers, data \in SummaryRegisterBodies : register_doctor(h, data)
    \/ \E h \in Handlers : approve_doctor(h, NewDoctorId, TRUE, 0)
    \/ \E h \in Handlers : get_doctors(h)
    \/ \E h \in Handlers, id \in {1, NewDoctorId} : get_doctor_detail(h, id)

SpecSummary == Init /\ [][NextSummary]_vars

\* ------------------------------------------------------------------ claims
SameSlot(a, doctorid, d, t) ==
    /\ a.doctorid = doctorid
    /\ a.appointment_date = d
    /\ a.appointment_time = t

\* A scheduled row holds the slot.
SlotScheduled(appts, doctorid, d, t) ==
    \E i \in DOMAIN appts : appts[i].status /\ SameSlot(appts[i], doctorid, d, t)

\* C1: in every reachable state, each (provider, date, time) has at most one
\* appointment in the scheduled state.
C1_AtMostOneScheduled ==
    \A i, j \in DOMAIN appointments :
        (/\ i # j
         /\ appointments[i].status
         /\ appointments[j].status)
        => ~SameSlot(appointments[i], appointments[j].doctorid,
                     appointments[j].appointment_date, appointments[j].appointment_time)

\* C2: of the book requests that race for a free slot, the one that commits first
\* is answered 201, and a request that was in flight while that answer was sent
\* and commits next for the same slot is answered Conflict (409) and inserts
\* nothing: one success, and Conflict for every other.
C2_OneWinnerOthersConflict ==
    [][\A h \in Handlers :
         create_appointment_commit(h) =>
           LET p == pending[h] IN
           /\ (/\ \E g \in Handlers :
                     /\ g # h
                     /\ pc[g] = "book"
                     /\ pending[g].doctorid = p.doctorid
                     /\ pending[g].date = p.date
                     /\ pending[g].time = p.time
               /\ ~SlotScheduled(appointments, p.doctorid, p.date, p.time))
              => (resp'.status = 201 /\ Len(appointments') = Len(appointments) + 1)
           /\ (/\ resp.op = "book"
               /\ resp.status = 201
               /\ SameSlot(appointments[resp.id], p.doctorid, p.date, p.time)
               /\ appointments[resp.id].status)
              => (resp'.status = 409 /\ appointments' = appointments)]_vars

\* C3: a valid book request whose slot holds a scheduled appointment when it
\* comes to the insert is answered Conflict (409, neither 400 nor 500) and the
\* appointments are unchanged.
C3_TakenSlotIsConflict ==
    [][\A h \in Handlers :
         (/\ create_appointment_commit(h)
          /\ SlotScheduled(appointments, pending[h].doctorid, pending[h].date,
                           pending[h].time))
         => (/\ resp'.op = "book"
             /\ resp'.status = 409
             /\ appointments' = appointments)]_vars

\* C4: a book request for a slot whose appointments are all cancelled succeeds
\* and creates a new scheduled appointment: a cancelled row does not block its
\* slot.
C4_CancelledSlotRebooks ==
    [][\A h \in Handlers :
         (/\ create_appointment_commit(h)
          /\ SlotRowExists(appointments, pending[h].doctorid, pending[h].date,
                           pending[h].time)
          /\ ~SlotScheduled(appointments, pending[h].doctorid, pending[h].date,
                            pending[h].time))
         => (/\ resp'.status = 201
             /\ Len(appointments') = Len(appointments) + 1
             /\ appointments'[Len(appointments')].status
             /\ SameSlot(appointments'[Len(appointments')], pending[h].doctorid,
                         pending[h].date, pending[h].time))]_vars

\* C5: a cancel request for an appointment that is cancelled is answered 400
\* 'Already cancelled', one for an id with no appointment 404; in both cases no
\* appointment changes and the handler goes on to no write.
C5_CancelErrors ==
    [][\A h \in Handlers, id \in AppointmentIds :
         cancel_appointment_read(h, id) =>
           /\ id \notin DOMAIN appointments
                => (/\ resp' = Response(h, "cancel", 404, "Appointment not found", id)
                    /\ appointments' = appointments
                    /\ pc' = pc)
           /\ (id \in DOMAIN appointments /\ ~appointments[id].status)
                => (/\ resp' = Response(h, "cancel", 400, "Already cancelled", id)
                    /\ appointments' = appointments
                    /\ pc' = pc)]_vars

\* A cancel of a cancelled appointment has just been refused.
C5_Witness ==
    /\ resp.op = "cancel"
    /\ resp.status = 400
    /\ resp.id \in DOMAIN appointments
    /\ ~appointments[resp.id].status

\* C6: no step of any request (book, cancel, rate, approve, reject) returns a
\* cancelled appointment to scheduled or removes it; a cancel request for a
\* scheduled appointment is admitted, and its commit answers 200 and leaves the
\* appointment cancelled.
C6_CancelOneWay ==
    [][/\ \A i \in DOMAIN appointments :
            /\ i \in DOMAIN appointments'
            /\ ~appointments[i].status => ~appointments'[i].status
       /\ \A h \in Handlers, id \in AppointmentIds :
            (/\ cancel_appointment_read(h, id)
             /\ id \in DOMAIN appointments
             /\ appointments[id].status)
            => (pc'[h] = "cancel" /\ pending'[h].id = id)
       /\ \A h \in Handlers :
            cancel_appointment_commit(h)
            => (/\ resp' = Response(h, "cancel", 200, "Appointment cancelled", pending[h].id)
                /\ ~appointments'[pending[h].id].status)]_vars

\* An appointment was rated, then cancelled, and doctor 1 was rejected since.
C6_Witness ==
    /\ \E i \in DOMAIN appointments :
          /\ ~appointments[i].status
          /\ \E r \in DOMAIN doctor_reviews : doctor_reviews[r].appointmentid = i
    /\ \E i \in DOMAIN appointments : appointments[i].status
    /\ doctors[1].approval_status = "rejected"
    /\ doctors[1].approved_at

\* C7: an appointment is created only for a provider that is approved when the
\* request is made; so the provider of a created appointment has an approval
\* on record (approved_at is stamped by approve_doctor and never cleared).
C7_OnlyApprovedBooked ==
    [][\A h \in Handlers :
         (create_appointment_commit(h) /\ Len(appointments') > Len(appointments))
         => doctors[pending[h].doctorid].approved_at]_vars

\* C8: every appointment is at a slot of its provider: its time is one the slot
\* loop yields for a window of the provider on the weekday of its date.
C8_OnlySlotsBooked ==
    \A i \in DOMAIN appointments :
        appointments[i].appointment_time
            \in WindowSlotTimes(appointments[i].doctorid, appointments[i].appointment_date)

\* C9: a book request with a required field missing, an unknown patient or
\* provider, or a date or time that does not parse is answered 400, and neither
\* changes the store nor goes on to the insert.
C9_InvalidIs400 ==
    [][\A h \in Handlers, data \in BookBodies :
         (/\ create_appointment_validate(h, data)
          /\ \/ RequiredMissing(data)
             \/ data.userid.v \notin users
             \/ data.doctorid.v \notin DOMAIN doctors
             \/ ParseDate(data.date).r # "ok"
             \/ ParseTime(data.time).r # "ok")
         => (/\ resp'.op = "book"
             /\ resp'.status = 400
             /\ appointments' = appointments
             /\ pc' = pc)]_vars

\* The reason the claim expects to be stored.
ExpectedReason(reason) ==
    IF reason.t \in {"absent", "str_empty", "str_blank"} THEN Unstated ELSE reason

\* C10: a request whose patient, provider, date and time are valid is taken to
\* the insert whatever its reason; a successful insert adds exactly one
\* appointment, scheduled, with the requested patient, provider, date and time,
\* and the given reason, or 'Unstated' for a missing, empty or blank one.
C10_BookCreatesRequested ==
    [][/\ \A h \in Handlers, data \in BookBodies :
            (/\ create_appointment_validate(h, data)
             /\ ~RequiredMissing(data)
             /\ data.userid.v \in users
             /\ data.doctorid.v \in DOMAIN doctors
             /\ ParseDate(data.date).r = "ok"
             /\ ParseTime(data.time).r = "ok")
            => (/\ pc'[h] = "book"
                /\ pending'[h].userid = data.userid.v
                /\ pending'[h].doctorid = data.doctorid.v
                /\ pending'[h].date = data.date.v
                /\ pending'[h].time = data.time.v
                /\ pending'[h].reason = ExpectedReason(data.reason))
       /\ \A h \in Handlers :
            (create_appointment_commit(h) /\ resp'.status = 201)
            => (/\ appointments' = Append(appointments,
                      [userid |-> pending[h].userid, doctorid |-> pending[h].doctorid,
                       status |-> TRUE, appointment_date |-> pending[h].date,
                       appointment_time |-> pending[h].time,
                       reason |-> pending[h].reason])
                /\ resp'.id = Len(appointments'))]_vars

\* An appointment booked with a blank reason has just been created.
C10_Witness ==
    /\ resp.op = "book"
    /\ resp.status = 201
    /\ appointments[resp.id].status
    /\ appointments[resp.id].reason = Unstated
    /\ \E i \in DOMAIN appointments : appointments[i].reason = Text(1)

\* The doctor has a row and its approval_status is 'approved'.
IsApproved(d) == d \in DOMAIN doctors /\ doctors[d].approval_status = "approved"

\* C11: the listing answered holds exactly the doctors that are approved, and
\* the detail answered is the record of the doctor asked for when it is
\* approved and 404 with no record when it is pending, rejected or unknown,
\* whatever windows the doctor has.
C11_OnlyApprovedVisible ==
    /\ resp.op = "list"
         => /\ resp.status = 200
            /\ {e.doctorid : e \in resp.doctors} = {d \in DOMAIN doctors : IsApproved(d)}
    /\ resp.op = "detail"
         => IF IsApproved(resp.id)
            THEN resp.status = 200 /\ {e.doctorid : e \in resp.doctors} = {resp.id}
            ELSE resp.status = 404 /\ resp.doctors = {}

\* A listing that shows an approved doctor while a rejected doctor and a pending
\* doctor, each with windows, are left out.
C11_Witness ==
    /\ resp.op = "list"
    /\ resp.doctors # {}
    /\ \E d \in DOMAIN doctors :
          /\ doctors[d].approval_status = "rejected"
          /\ \E i \in DOMAIN doctor_availability : doctor_availability[i].doctorid = d
    /\ \E d \in DOMAIN doctors :
          /\ doctors[d].approval_status = "pending"
          /\ \E i \in DOMAIN doctor_availability : doctor_availability[i].doctorid = d

\* C12: a slot query with a date that parses is answered 200 with the empty list
\* when the doctor is not approved (pending, rejected or unknown), whatever
\* windows it has, and when the doctor has no window on the weekday of the date.
C12_NoSlotsUnlessApproved ==
    [][resp'.op = "slots" =>
         \A d \in SlotDates, w \in 0..(Len(SeedAvailability) + 2) :
           (/\ Truthy(d)
            /\ ParseDate(d).r = "ok"
            /\ \/ ~IsApproved(resp'.id)
               \/ WindowsOn(resp'.id, DayAbbrev(ParseDate(d).v)) = {}
            /\ get_doctor_availability(resp'.h, resp'.id, d, w))
           => (/\ resp'.status = 200
               /\ resp'.slots = <<>>)]_vars

\* The slots of a rejected doctor that has windows on both days asked about
\* were answered as the empty list.
C12_Witness ==
    /\ resp.op = "slots"
    /\ resp.status = 200
    /\ resp.slots = <<>>
    /\ resp.id \in DOMAIN doctors
    /\ doctors[resp.id].approval_status = "rejected"
    /\ WindowsOn(resp.id, "Mon") # {}
    /\ WindowsOn(resp.id, "Tue") # {}

\* The transitions of the approval state the specification allows.
AllowedTransitions ==
    {<<"pending", "approved">>, <<"pending", "rejected">>, <<"approved", "suspended">>}

\* C13: a doctor is pending when its row is created, and a step changes the
\* approval state of a doctor only along pending->approved, pending->rejected
\* or approved->suspended: never rejected->approved, never approved->rejected.
C13_ApprovalTransitions ==
    [][/\ \A d \in DOMAIN doctors :
            doctors'[d].approval_status # doctors[d].approval_status
              => <<doctors[d].approval_status, doctors'[d].approval_status>>
                    \in AllowedTransitions
       /\ \A d \in DOMAIN doctors' \ DOMAIN doctors :
            doctors'[d].approval_status = "pending"]_vars

\* C14: an approve or reject request whose X-Admin-Api-Key is not the admin key
\* is answered 401 and leaves every doctor's approval columns as they were,
\* with ADMIN_API_KEY configured or not.
C14_AdminOnly ==
    [][resp'.op \in {"approve", "reject"} =>
         /\ \A a \in Approvers :
              approve_doctor(resp'.h, resp'.id, FALSE, a)
                => (resp'.status = 401 /\ doctors' = doctors)
         /\ \A r \in RejectReasons :
              reject_doctor(resp'.h, resp'.id, FALSE, r)
                => (resp'.status = 401 /\ doctors' = doctors)]_vars

\* (data.get('reason') or '').strip() or None, as the claim expects it stored.
GivenReason(r) == IF r.t \in {"absent", "str_empty", "str_blank"} THEN Absent ELSE r

\* C15: after an approve answered 200 the doctor is approved, has an approval
\* timestamp, the approver of the request when one was given, and no rejection
\* reason; after a reject answered 200 the doctor is rejected with the reason of
\* the request and has neither approval timestamp nor approver.
C15_TotalOverwrite ==
    [][(resp'.op \in {"approve", "reject"} /\ resp'.status = 200) =>
         /\ \A key \in BOOLEAN, a \in Approvers :
              approve_doctor(resp'.h, resp'.id, key, a)
                => (/\ doctors'[resp'.id].approval_status = "approved"
                    /\ doctors'[resp'.id].approved_at
                    /\ a # 0 => doctors'[resp'.id].approved_by = a
                    /\ doctors'[resp'.id].rejection_reason = Absent)
         /\ \A key \in BOOLEAN, r \in RejectReasons :
              reject_doctor(resp'.h, resp'.id, key, r)
                => (/\ doctors'[resp'.id].approval_status = "rejected"
                    /\ doctors'[resp'.id].rejection_reason = GivenReason(r)
                    /\ ~doctors'[resp'.id].approved_at
                    /\ doctors'[resp'.id].approved_by = 0)]_vars

\* C16: a rate request for an id with no appointment, for a cancelled
\* appointment, or for one dated today or later is answered a domain error (404
\* or 400) and goes on to no write; and a step that writes a rating writes it
\* for an appointment that is scheduled and dated before today when it writes.
C16_RateOnlyPastScheduled ==
    [][/\ resp'.op = "rate" =>
            \A data \in RateBodies, e \in 0..MaxReviews :
              (/\ \/ resp'.id \notin DOMAIN appointments
                  \/ ~appointments[resp'.id].status
                  \/ appointments[resp'.id].appointment_date >= today
               /\ rate_appointment_read(resp'.h, resp'.id, data, e))
              => (/\ resp'.status \in {400, 404}
                  /\ doctor_reviews' = doctor_reviews
                  /\ pc' = pc)
       /\ doctor_reviews' # doctor_reviews =>
            \A h \in Handlers :
              rate_appointment_commit(h)
                => (/\ appointments[pending[h].id].status
                    /\ appointments[pending[h].id].appointment_date < today)]_vars

\* C17: no two rows of doctor_reviews are for the same appointment, whatever the
\* interleaving of the rate requests.
C17_OneRatingPerAppointment ==
    \A i, j \in DOMAIN doctor_reviews :
        i # j => doctor_reviews[i].appointmentid # doctor_reviews[j].appointmentid

\* The multiple of 0.5 nearest to a score, in tenths.
NearestHalf(tenths) ==
    CHOOSE m \in {5 * k : k \in 0..12} :
        \A n \in {5 * k : k \in 0..12} :
            (IF m > tenths THEN m - tenths ELSE tenths - m)
              <= (IF n > tenths THEN n - tenths ELSE tenths - n)

\* The comment of a request as stored: the text under 'comment', else under
\* 'comments', stripped; none when there is no text.
GivenComment(data) ==
    IF data.comment.t \in {"str_text"} THEN data.comment
    ELSE IF data.comment.t \in {"absent", "str_empty"} /\ data.comments.t \in {"str_text"}
    THEN data.comments
    ELSE Absent

\* C18: a rate request that is accepted carries the submitted score, rounded to
\* the half star, and comment; when the appointment has a rating it is taken
\* to that rating and the commit edits it in place (the number of ratings, the
\* other ratings, and its appointment, doctor and patient unchanged, its score
\* and comment the new ones); when it has none the commit inserts one rating
\* with the doctor and the patient of the appointment.
C18_RateUpserts ==
    [][/\ \A h \in Handlers :
            (pc[h] = "idle" /\ pc'[h] = "rate") =>
              \A data \in AllRateBodies :
                rate_appointment_read(h, pending'[h].id, data, pending'[h].existing)
                  => LET id == pending'[h].id IN
                     /\ pending'[h].rating = NearestHalf(ParseFloat(data.rating).v)
                     /\ pending'[h].comments = GivenComment(data)
                     /\ (\E r \in DOMAIN doctor_reviews :
                            doctor_reviews[r].appointmentid = id)
                          => (/\ pending'[h].existing \in DOMAIN doctor_reviews
                              /\ doctor_reviews[pending'[h].existing].appointmentid = id)
                     /\ (\A r \in DOMAIN doctor_reviews :
                            doctor_reviews[r].appointmentid # id)
                          => pending'[h].existing = 0
       /\ \A h \in Handlers :
            (rate_appointment_commit(h) /\ resp'.status = 200)
              => LET p == pending[h] IN
                 IF p.existing # 0
                 THEN /\ Len(doctor_reviews') = Len(doctor_reviews)
                      /\ \A r \in DOMAIN doctor_reviews :
                            r # p.existing => doctor_reviews'[r] = doctor_reviews[r]
                      /\ doctor_reviews'[p.existing] =
                            [doctorid |-> doctor_reviews[p.existing].doctorid,
                             userid |-> doctor_reviews[p.existing].userid,
                             appointmentid |-> doctor_reviews[p.existing].appointmentid,
                             rating |-> p.rating, comments |-> p.comments]
                 ELSE doctor_reviews' = Append(doctor_reviews,
                            [doctorid |-> appointments[p.id].doctorid,
                             userid |-> appointments[p.id].userid,
                             appointmentid |-> p.id,
                             rating |-> p.rating, comments |-> p.comments])]_vars

\* A rating of 4.5 without comment was replaced in place by 5.0 with a comment.
C18_Witness ==
    /\ resp.op = "rate"
    /\ resp.status = 200
    /\ resp.msg = "rating updated"
    /\ Len(doctor_reviews) = 1
    /\ doctor_reviews[1].rating = 50
    /\ doctor_reviews[1].comments = Text(1)

\* A score is a number: a JSON number or a string that holds one.
IsNumeric(x) == x.t \in {"num", "int", "str_num"}

\* The score submitted, in tenths.
Score(x) == IF x.t = "int" THEN 10 * x.v ELSE x.v

\* C19: every stored score is a multiple of 0.5 in [1.0, 5.0]; a rate request
\* whose score is below 1, above 5 or not a number is rejected and goes on to no
\* write; one whose score is accepted carries the score rounded to the nearest
\* 0.5.
C19_ScoreNormalized ==
    [][/\ \A r \in DOMAIN doctor_reviews' :
            /\ doctor_reviews'[r].rating % 5 = 0
            /\ doctor_reviews'[r].rating >= 10
            /\ doctor_reviews'[r].rating <= 50
       /\ (resp'.op = "rate" /\ pc' = pc) =>
            \A data \in AllRateBodies, e \in 0..MaxReviews :
              (/\ data.rating.t # "absent"
               /\ ~IsNumeric(data.rating) \/ Score(data.rating) < 10 \/ Score(data.rating) > 50
               /\ rate_appointment_read(resp'.h, resp'.id, data, e))
              => (resp'.status >= 400 /\ doctor_reviews' = doctor_reviews)
       /\ \A h \in Handlers :
            (pc[h] = "idle" /\ pc'[h] = "rate") =>
              \A data \in AllRateBodies :
                rate_appointment_read(h, pending'[h].id, data, pending'[h].existing)
                  => (/\ IsNumeric(data.rating)
                      /\ Score(data.rating) >= 10
                      /\ Score(data.rating) <= 50
                      /\ pending'[h].rating = NearestHalf(Score(data.rating)))]_vars

\* The ratings of a doctor among the first n rows: how many, and their total.
RECURSIVE RatingCount(_, _)
RatingCount(doctorid, n) ==
    IF n = 0 THEN 0
    ELSE RatingCount(doctorid, n - 1)
           + (IF doctor_reviews[n].doctorid = doctorid THEN 1 ELSE 0)

RECURSIVE RatingTotal(_, _)
RatingTotal(doctorid, n) ==
    IF n = 0 THEN 0
    ELSE RatingTotal(doctorid, n - 1)
           + (IF doctor_reviews[n].doctorid = doctorid THEN doctor_reviews[n].rating ELSE 0)

\* The entry is the number of the doctor's ratings and their arithmetic mean.
IsCountAndMean(entry, doctorid) ==
    /\ entry.review_count = RatingCount(doctorid, Len(doctor_reviews))
    /\ entry.avg_rating.den > 0
    /\ entry.avg_rating.num * entry.review_count
         = RatingTotal(doctorid, Len(doctor_reviews)) * entry.avg_rating.den

\* C20: for every set of requested doctors, get_review_aggregates maps exactly
\* the requested doctors that have a rating, each to the number of its ratings
\* and their arithmetic mean; no ids give the empty map; and the listing and the
\* detail show these figures, or count 0 and no average for a doctor with no
\* rating.
C20_ReviewStats ==
    /\ \A ids \in SUBSET (1..MaxDoctors) :
         LET m == get_review_aggregates(ids) IN
         /\ DOMAIN m = {d \in ids : RatingCount(d, Len(doctor_reviews)) > 0}
         /\ \A d \in DOMAIN m : IsCountAndMean(m[d], d)
    /\ DOMAIN get_review_aggregates({}) = {}
    /\ resp.op \in {"list", "detail"} =>
         \A entry \in resp.doctors :
            IF RatingCount(entry.doctorid, Len(doctor_reviews)) > 0
            THEN IsCountAndMean(entry, entry.doctorid)
            ELSE entry.review_count = 0 /\ entry.avg_rating = NoAverage

\* The listing shows a doctor rated 5.0, 4.0 and 3.0 with count 3 and average
\* 4.0, next to a doctor with no rating.
C20_Witness ==
    /\ resp.op = "list"
    /\ {doctor_reviews[i].rating : i \in DOMAIN doctor_reviews} = {30, 40, 50}
    /\ \E entry \in resp.doctors :
          /\ entry.review_count = 3
          /\ entry.avg_rating = [num |-> 40, den |-> 1]
    /\ \E entry \in resp.doctors : entry.review_count = 0

\* C21: a slot query that reads a window with start < end answers a list that
\* begins at the start of the window, goes on in steps of exactly 30 minutes
\* (so it is strictly increasing), holds only times before the end, and stops
\* only when the next step would reach the end: exactly the times
\* start + 30k minutes before the end, a finite list.
C21_SlotsOfWindow ==
    [][(resp'.op = "slots" /\ resp'.status = 200) =>
         \A d \in SlotQueryDates, w \in DOMAIN doctor_availability :
           (/\ doctor_availability[w].starttime < doctor_availability[w].endtime
            /\ get_doctor_availability(resp'.h, resp'.id, d, w))
           => LET slots == resp'.slots
                  start == doctor_availability[w].starttime
                  end == doctor_availability[w].endtime
              IN /\ Len(slots) >= 1
                 /\ slots[1] = TimeStr(start)
                 /\ \A i \in DOMAIN slots :
                       /\ slots[i] = TimeStr(start + 30 * (i - 1))
                       /\ slots[i].v >= start
                       /\ slots[i].v < end
                 /\ \A i \in DOMAIN slots :
                       i > 1 => slots[i].v > slots[i - 1].v
                 /\ start + 30 * Len(slots) >= end]_vars

\* The slots 9:00, 9:30 and 10:00 of the window 9:00 - 10:20, whose length is no
\* multiple of 30 minutes, were answered.
C21_Witness ==
    /\ resp.op = "slots"
    /\ resp.slots = <<TimeStr(HM(9, 0)), TimeStr(HM(9, 30)), TimeStr(HM(10, 0))>>
    /\ \E w \in DOMAIN doctor_availability :
          /\ doctor_availability[w].doctorid = resp.id
          /\ doctor_availability[w].starttime = HM(9, 0)
          /\ doctor_availability[w].endtime = HM(10, 20)

\* The start times of the 30-minute slots of all the windows of the doctor on
\* the weekday.
AllWindowSlots(doctor_id, day_abbrev) ==
    {t \in 0..(24 * 60 - 1) :
        \E w \in WindowsOn(doctor_id, day_abbrev) :
           /\ t >= doctor_availability[w].starttime
           /\ t < doctor_availability[w].endtime
           /\ (t - doctor_availability[w].starttime) % 30 = 0}

\* C22: the slot list of an approved doctor holds every slot of every window of
\* the doctor on the weekday of the date, each once, in increasing order.
C22_SlotsOfAllWindows ==
    [][(resp'.op = "slots" /\ resp'.status = 200 /\ IsApproved(resp'.id)) =>
         \A d \in SlotQueryDates, w \in 0..Len(doctor_availability) :
           get_doctor_availability(resp'.h, resp'.id, d, w)
           => LET slots == resp'.slots IN
              /\ {slots[i].v : i \in DOMAIN slots}
                    = AllWindowSlots(resp'.id, DayAbbrev(ParseDate(d).v))
              /\ \A i \in DOMAIN slots : i > 1 => slots[i].v > slots[i - 1].v]_vars

\* C25: every row of doctor_availability has starttime before endtime.
C25_WindowStartBeforeEnd ==
    \A i \in DOMAIN doctor_availability :
        doctor_availability[i].starttime < doctor_availability[i].endtime

\* The blocks of a doctor, as the detail shows them.
BlocksOf(doctor_id) == AvailabilityOf(doctor_id).blocks

\* C23: the summary of the blocks of a doctor is the same for every order of
\* the blocks, also when two time ranges have the same earliest weekday.
C23_SummaryOrderIndependent ==
    \A doctor_id \in DOMAIN doctors :
        LET blocks == BlocksOf(doctor_id) IN
        \A p \in Permutations(DOMAIN blocks) :
            summarize_availability([i \in DOMAIN blocks |-> blocks[p[i]]])
              = summarize_availability(blocks)

\* The 12-hour text of a time of day.
Clock(minutes) ==
    [hour |-> ((minutes \div 60 + 11) % 12) + 1,
     minute |-> minutes % 60,
     ampm |-> IF minutes < 12 * 60 THEN "AM" ELSE "PM"]

\* Mon -> 0 .. Sun -> 6, any other day 99.
WeekdayRank(d) ==
    CASE d = "Mon" -> 0 [] d = "Tue" -> 1 [] d = "Wed" -> 2 [] d = "Thu" -> 3
      [] d = "Fri" -> 4 [] d = "Sat" -> 5 [] d = "Sun" -> 6 [] OTHER -> 99

\* The least rank among the days of a segment.
EarliestRank(days) ==
    CHOOSE r \in {WeekdayRank(days[i]) : i \in DOMAIN days} :
        \A j \in DOMAIN days : r <= WeekdayRank(days[j])

\* C24: the summary of no blocks is None; otherwise it has one segment for each
\* distinct (start, end) of the blocks and no other, each with the times in
\* 12-hour text and exactly the days that have the range, each once, weekdays
\* in Mon..Sun order and other days last; and the segments are in the order of
\* their earliest weekday.  The detail and the listing show this summary.
C24_SummaryShape ==
    /\ \A doctor_id \in DOMAIN doctors :
         LET blocks == BlocksOf(doctor_id)
             summary == summarize_availability(blocks)
             segs == summary.segments
         IN IF blocks = <<>> THEN summary = NoSummary
            ELSE /\ ~summary.none
                 /\ {<<segs[i].start, segs[i].end>> : i \in DOMAIN segs}
                      = {<<Clock(blocks[j].start.v), Clock(blocks[j].end.v)>> :
                            j \in DOMAIN blocks}
                 /\ \A i, j \in DOMAIN segs :
                       i # j => <<segs[i].start, segs[i].end>> # <<segs[j].start, segs[j].end>>
                 /\ \A i \in DOMAIN segs :
                       LET days == segs[i].days IN
                       /\ {days[k] : k \in DOMAIN days}
                            = {blocks[j].day : j \in {b \in DOMAIN blocks :
                                  /\ Clock(blocks[b].start.v) = segs[i].start
                                  /\ Clock(blocks[b].end.v) = segs[i].end}}
                       /\ \A k, l \in DOMAIN days : k < l => days[k] # days[l]
                       /\ \A k, l \in DOMAIN days :
                             k < l => WeekdayRank(days[k]) <= WeekdayRank(days[l])
                 /\ \A i, j \in DOMAIN segs :
                       i < j => EarliestRank(segs[i].days) <= EarliestRank(segs[j].days)
    /\ resp.op \in {"list", "detail"} =>
         \A entry \in resp.doctors :
            entry.availability_summary
              = summarize_availability(BlocksOf(entry.doctorid))

\* The detail of a doctor registered with Wed 09:00-12:00 and Mon 09:00-12:00
\* shows the one segment "Mon, Wed: 9:00 AM - 12:00 PM".
C24_Witness ==
    /\ resp.op = "detail"
    /\ resp.status = 200
    /\ \E entry \in resp.doctors :
          /\ entry.availability_blocks
               = <<Block("Wed", TimeStr(HM(9, 0)), TimeStr(HM(12, 0))),
                   Block("Mon", TimeStr(HM(9, 0)), TimeStr(HM(12, 0)))>>
          /\ entry.availability_summary
               = [none |-> FALSE,
                  segments |-> <<[days |-> <<"Mon", "Wed">>,
                                  start |-> [hour |-> 9, minute |-> 0, ampm |-> "AM"],
                                  end |-> [hour |-> 12, minute |-> 0, ampm |-> "PM"]]>>]

\* C26: every step keeps every appointment on record under its id with the
\* same patient, provider, date, time and reason; the status of an appointment
\* changes only from scheduled to cancelled, and only in the commit of a cancel
\* of that appointment.
C26_AppointmentsStay ==
    [][\A i \in DOMAIN appointments :
          /\ i \in DOMAIN appointments'
          /\ appointments'[i] = [appointments[i] EXCEPT !.status = appointments'[i].status]
          /\ appointments'[i].status # appointments[i].status
               => /\ appointments[i].status
                  /\ ~appointments'[i].status
                  /\ resp' = Response(resp'.h, "cancel", 200, "Appointment cancelled", i)
                  /\ cancel_appointment_commit(resp'.h)]_vars

\* The first appointment has just been cancelled and is on record with what it
\* was booked with, beside a second, scheduled one.
C26_Witness ==
    /\ resp.op = "cancel"
    /\ resp.status = 200
    /\ resp.id = 1
    /\ Len(appointments) = 2
    /\ appointments[1] = [userid |-> 1, doctorid |-> 1, status |-> FALSE,
                          appointment_date |-> 0, appointment_time |-> HM(9, 0),
                          reason |-> Text(1)]
    /\ appointments[2].status

\* The slot lists the query can answer for a doctor and a date, from the
\* approval state of the doctor and its windows on the weekday alone.
SlotAnswers(doctor_id, date_str) ==
    IF ~(doctor_id \in DOMAIN doctors /\ doctors[doctor_id].approval_status = "approved")
    THEN {<<>>}
    ELSE LET avail == WindowsOn(doctor_id, DayAbbrev(ParseDate(date_str).v)) IN
         IF avail = {} THEN {<<>>}
         ELSE {FormatSlots(SlotLoop(doctor_availability[w].starttime,
                                    doctor_availability[w].endtime)) : w \in avail}

\* C27: the slot list answered for a doctor and a date is one that follows from
\* the approval state and the windows alone, whatever appointments are on
\* record, and a step that creates or cancels an appointment leaves the lists
\* of every doctor and date as they were.
C27_SlotsIgnoreBookings ==
    [][/\ (resp'.op = "slots" /\ resp'.status = 200)
            => \E d \in SlotQueryDates, w \in 0..Len(doctor_availability) :
                  /\ get_doctor_availability(resp'.h, resp'.id, d, w)
                  /\ resp'.slots \in SlotAnswers(resp'.id, d)
       /\ appointments' # appointments
            => \A doctor_id \in DOMAIN doctors, d \in SlotQueryDates :
                  SlotAnswers(doctor_id, d)' = SlotAnswers(doctor_id, d)]_vars

\* The slot 09:00 is answered for a doctor that has a scheduled appointment at
\* 09:00 on a Monday.
C27_Witness ==
    /\ resp.op = "slots"
    /\ resp.status = 200
    /\ resp.slots # <<>>
    /\ resp.slots[1] = TimeStr(HM(9, 0))
    /\ \E i \in DOMAIN appointments :
          /\ appointments[i].status
          /\ appointments[i].doctorid = resp.id
          /\ appointments[i].appointment_date = 0
          /\ appointments[i].appointment_time = HM(9, 0)

\* C28: the two steps of a cancel, whatever they answer, leave every rating on
\* record as it was, and with it the review count and average of every doctor.
C28_CancelKeepsRatings ==
    [][(\/ resp'.op = "cancel"
        \/ \E h \in Handlers : pc[h] # pc'[h] /\ "cancel" \in {pc[h], pc'[h]})
       => /\ doctor_reviews' = doctor_reviews
          /\ get_review_aggregates(DOMAIN doctors)' = get_review_aggregates(DOMAIN doctors)]_vars

\* A rated appointment has just been cancelled: its rating is on record and
\* counted for its doctor.
C28_Witness ==
    /\ resp.op = "cancel"
    /\ resp.status = 200
    /\ \E r \in DOMAIN doctor_reviews :
          /\ doctor_reviews[r].appointmentid = resp.id
          /\ doctor_reviews[r].doctorid \in DOMAIN get_review_aggregates(DOMAIN doctors)
          /\ get_review_aggregates(DOMAIN doctors)[doctor_reviews[r].doctorid].review_count >= 1

====
